---- MODULE Spec2Model ----
(***************************************************************************)
(* The comment sentiment aggregation pipeline of youtube-analyzer.         *)
(*                                                                         *)
(* The repository holds three variants of the analyze request handler:     *)
(*   "sequential"  src/unnamed/part_001: rateLimiter classifies one        *)
(*                 comment after the other and waits after each of them,   *)
(*                 then the handler aggregates with store lookups;         *)
(*   "perComment"  src/yt-analyzer/src/App.tsx 299-385 with the batched    *)
(*                 rateLimiter of App.tsx 148-176; analyzeSentiment, which *)
(*                 that rateLimiter calls, is defined only in part_001     *)
(*                 (52-82) and is modelled from there;                     *)
(*   "batched"     src/yt-analyzer/src/App.tsx 179-248: one prompt for all *)
(*                 comments (analyzeAllComments), no store, no fallback.   *)
(* A deployment runs one variant; Init chooses it.                         *)
(*                                                                         *)
(* Strings whose characters the code inspects (comment texts, classifier   *)
(* responses, labels, urls) are sequences of one-character strings.        *)
(***************************************************************************)
EXTENDS Integers, Sequences, FiniteSets, TLC

\* ------------------------------------------------------------- bounds
\* Comment identifiers are 1..MaxComments; a fetched page holds at most
\* MaxComments comment threads (the code asks for maxResults: 100).
MaxComments == 3
\* rateLimiter's batchSize.  The code's default is 10 (App.tsx 148); the
\* model runs it with a smaller one so that a page spans several batches.
batchSize == 2
\* The aggregator alone is run on up to MaxTotal comments.
MaxTotal == 20
\* The text functions alone are run on texts of up to MaxWords pieces.
MaxWords == 3
\* Two requests, overlapping or one after the other's failure, are run on
\* pages of up to MaxRacePage comments.
MaxRacePage == 2

\* -------------------------------------------------- program constants
\* analyzeSentiment(comment, retries = 3, delay = 2000)
DefaultRetries == 3
DefaultDelay == 2000
\* error.status === 429
RateLimitStatus == 429

\* ------------------------------------------------------------ strings
UpperChars ==
    <<"A", "B", "C", "D", "E", "F", "G", "H", "I", "J", "K", "L", "M",
      "N", "O", "P", "Q", "R", "S", "T", "U", "V", "W", "X", "Y", "Z">>
LowerChars ==
    <<"a", "b", "c", "d", "e", "f", "g", "h", "i", "j", "k", "l", "m",
      "n", "o", "p", "q", "r", "s", "t", "u", "v", "w", "x", "y", "z">>
DigitChars == <<"0", "1", "2", "3", "4", "5", "6", "7", "8", "9">>

Range(s) == {s[k] : k \in DOMAIN s}

\* String.prototype.toLowerCase / toUpperCase, character by character
toLowerCase(s) ==
    [k \in DOMAIN s |->
        IF \E j \in DOMAIN UpperChars : UpperChars[j] = s[k]
        THEN LowerChars[CHOOSE j \in DOMAIN UpperChars : UpperChars[j] = s[k]]
        ELSE s[k]]
toUpperCase(s) ==
    [k \in DOMAIN s |->
        IF \E j \in DOMAIN LowerChars : LowerChars[j] = s[k]
        THEN UpperChars[CHOOSE j \in DOMAIN LowerChars : LowerChars[j] = s[k]]
        ELSE s[k]]

\* String.prototype.includes: substring containment
includes(s, w) ==
    \E k \in 1..(Len(s) - Len(w) + 1) : SubSeq(s, k, k + Len(w) - 1) = w

\* String.prototype.trim
RECURSIVE trim(_)
trim(s) ==
    IF s = <<>> THEN s
    ELSE IF Head(s) = " " THEN trim(Tail(s))
    ELSE IF s[Len(s)] = " " THEN trim(SubSeq(s, 1, Len(s) - 1))
    ELSE s

\* ------------------------------------------------ fallback classifier
positiveWords ==
    << <<"g", "o", "o", "d">>,
       <<"g", "r", "e", "a", "t">>,
       <<"a", "w", "e", "s", "o", "m", "e">>,
       <<"l", "o", "v", "e">>,
       <<"l", "i", "k", "e">> >>
negativeWords ==
    << <<"b", "a", "d">>,
       <<"t", "e", "r", "r", "i", "b", "l", "e">>,
       <<"h", "a", "t", "e">>,
       <<"d", "i", "s", "l", "i", "k", "e">>,
       <<"a", "w", "f", "u", "l">> >>

\* words.filter((word) => lowerCaseComment.includes(word)).length
CountIncluded(words, lowerCaseComment) ==
    Cardinality({k \in DOMAIN words : includes(lowerCaseComment, words[k])})

\* A classifier that does not lower-case the comment.
fallbackSentimentAnalysisCaseSensitive(comment) ==
    LET positiveCount == CountIncluded(positiveWords, comment)
        negativeCount == CountIncluded(negativeWords, comment)
    IN  IF positiveCount > negativeCount THEN "agree"
        ELSE IF negativeCount > positiveCount THEN "disagree"
        ELSE "neutral"

fallbackSentimentAnalysis(comment) ==
    LET lowerCaseComment == toLowerCase(comment)
        positiveCount == CountIncluded(positiveWords, lowerCaseComment)
        negativeCount == CountIncluded(negativeWords, lowerCaseComment)
    IN  IF positiveCount > negativeCount THEN "agree"
        ELSE IF negativeCount > positiveCount THEN "disagree"
        ELSE "neutral"

\* fallbackSentimentAnalysis of App.tsx 107-122: the same function with
\* longer word lists
positiveWordsLong ==
    << <<"g", "o", "o", "d">>,
       <<"g", "r", "e", "a", "t">>,
       <<"a", "w", "e", "s", "o", "m", "e">>,
       <<"l", "o", "v", "e">>,
       <<"l", "i", "k", "e">>,
       <<"c", "o", "o", "l">>,
       <<"n", "i", "c", "e">>,
       <<"a", "m", "a", "z", "i", "n", "g">>,
       <<"f", "a", "n", "t", "a", "s", "t", "i", "c">>,
       <<"e", "x", "c", "e", "l", "l", "e", "n", "t">>,
       <<"b", "e", "s", "t">>,
       <<"b", "e", "a", "u", "t", "i", "f", "u", "l">>,
       <<"w", "o", "n", "d", "e", "r", "f", "u", "l">>,
       <<"p", "e", "r", "f", "e", "c", "t">> >>
negativeWordsLong ==
    << <<"b", "a", "d">>,
       <<"t", "e", "r", "r", "i", "b", "l", "e">>,
       <<"h", "a", "t", "e">>,
       <<"d", "i", "s", "l", "i", "k", "e">>,
       <<"a", "w", "f", "u", "l">>,
       <<"g", "r", "o", "s", "s">>,
       <<"c", "r", "i", "n", "g", "e">>,
       <<"d", "i", "s", "g", "u", "s", "t", "i", "n", "g">>,
       <<"h", "o", "r", "r", "i", "b", "l", "e">>,
       <<"w", "o", "r", "s", "t">>,
       <<"s", "u", "c", "k", "s">>,
       <<"s", "t", "u", "p", "i", "d">>,
       <<"t", "r", "a", "s", "h">> >>
fallbackSentimentAnalysisLong(comment) ==
    LET lowerCaseComment == toLowerCase(comment)
        positiveCount == CountIncluded(positiveWordsLong, lowerCaseComment)
        negativeCount == CountIncluded(negativeWordsLong, lowerCaseComment)
    IN  IF positiveCount > negativeCount THEN "agree"
        ELSE IF negativeCount > positiveCount THEN "disagree"
        ELSE "neutral"

\* ---------------------------------------- per-comment response parsing
AGREE == <<"A", "G", "R", "E", "E">>
DISAGREE == <<"D", "I", "S", "A", "G", "R", "E", "E">>
NEUTRAL == <<"N", "E", "U", "T", "R", "A", "L">>

\* analyzeSentiment's reading of the response text (part_001 68-72)
SentimentOfResponse(responseText) ==
    LET text == toUpperCase(trim(responseText))
    IN  IF includes(text, AGREE) THEN "agree"
        ELSE IF includes(text, DISAGREE) THEN "disagree"
        ELSE "neutral"

\* --------------------------------------------------------- video urls
IdChars == Range(UpperChars) \cup Range(LowerChars) \cup Range(DigitChars) \cup {"_", "-"}

\* url.match(/(?:v=|\/)([a-zA-Z0-9_-]{11})/): TRUE when the eleven
\* characters after position k (the end of "v=" or of "/") are id characters
IdAt(url, k) ==
    /\ k + 11 <= Len(url)
    /\ \A j \in 1..11 : url[k + j] \in IdChars
MatchEnds(url) ==
    {k \in 1..Len(url) :
        /\ \/ url[k] = "/"
           \/ k >= 2 /\ url[k - 1] = "v" /\ url[k] = "="
        /\ IdAt(url, k)}
\* the videoId, or <<>> for null (no match)
extractVideoId(url) ==
    IF MatchEnds(url) = {} THEN <<>>
    ELSE LET k == CHOOSE e \in MatchEnds(url) : \A o \in MatchEnds(url) : e <= o
         IN  SubSeq(url, k + 1, k + 11)

Urls ==
    { <<"h", "t", "t", "p", "s", ":", "/", "/", "y", "o", "u", "t", "u", ".",
        "b", "e", "/", "d", "Q", "w", "4", "w", "9", "W", "g", "X", "c", "Q">>,
      <<"w", "a", "t", "c", "h", "?", "v", "=", "a", "b", "c", "-", "D", "E",
        "F", "_", "1", "2", "3">>,
      <<"n", "o", "t", " ", "a", " ", "u", "r", "l">> }

\* ----------------------------------------------------------- comments
CommentIds == 1..MaxComments

\* textDisplay of the comment threads the comment source can return
Texts ==
    << <<"L", "o", "v", "e", " ", "i", "t", ",", " ", "G", "R", "E", "A", "T">>,
       <<"b", "a", "d", " ", "a", "n", "d", " ", "a", "w", "f", "u", "l">>,
       <<"1", "0", " ", "m", "i", "n", "u", "t", "e", "s">> >>
textDisplay(id) == Texts[((id - 1) % Len(Texts)) + 1]

\* publishedAt, as year and month number; two comments share a month
\* across years
Published ==
    << [year |-> 2023, month |-> 1],
       [year |-> 2023, month |-> 12],
       [year |-> 2024, month |-> 1] >>
publishedAt(id) == Published[((id - 1) % Len(Published)) + 1]

\* response.data.items of commentThreads.list: the first n threads
Pages == {[k \in 1..n |-> k] : n \in 0..MaxComments}

\* ------------------------------------------------------------- months
months ==
    <<"Jan", "Feb", "Mar", "Apr", "May", "Jun",
      "Jul", "Aug", "Sep", "Oct", "Nov", "Dec">>

\* timestamp.toLocaleString("default", { month: "short" })
MonthShort(timestamp) == months[timestamp.month]

allMonths == [m \in Range(months) |-> 0]

sortMonths(distribution) ==
    [m \in Range(months) |->
        IF m \in DOMAIN distribution THEN distribution[m] ELSE 0]

\* distribution[month]++
CountMonth(distribution, month) ==
    [distribution EXCEPT ![month] = @ + 1]

RECURSIVE SumOver(_, _)
SumOver(f, keys) ==
    IF keys = {} THEN 0
    ELSE LET k == CHOOSE x \in keys : TRUE
         IN  f[k] + SumOver(f, keys \ {k})

\* --------------------------------------------------------- aggregator
\* analysisResults: the three counters, and whether a key other than
\* agree/disagree/neutral was created by ++ on a missing key (it holds NaN)
ZeroResults == [agree |-> 0, disagree |-> 0, neutral |-> 0, other |-> FALSE]

Sentiments == {"agree", "disagree", "neutral"}

\* analysisResults[sentiment]++ for one of the three keys
CountSentiment(analysisResults, sentiment) ==
    [analysisResults EXCEPT ![sentiment] = @ + 1]

\* JavaScript numbers that can be NaN
Num(v) == [kind |-> "number", value |-> v]
NaN == [kind |-> "NaN", value |-> 0]

\* Object.values(analysisResults).reduce((a, b) => a + b, 0)
Total(analysisResults) ==
    IF analysisResults.other THEN NaN
    ELSE Num(analysisResults.agree + analysisResults.disagree
             + analysisResults.neutral)

\* Rounding up to the next tenth instead of to the nearest.
ToFixed1Ceil(count, total) ==
    IF total.kind = "NaN" \/ total.value = 0 THEN NaN
    ELSE Num((count * 1000 + total.value - 1) \div total.value)

\* ((count / total) * 100).toFixed(1), in tenths of a percent; 0/0 and
\* anything over NaN give "NaN" (a count over a total of 0 is 0 here,
\* the total being the sum of the counts)
ToFixed1(count, total) ==
    IF total.kind = "NaN" \/ total.value = 0 THEN NaN
    ELSE Num((2 * count * 1000 + total.value) \div (2 * total.value))

NoResponse ==
    [status |-> 0, sentimentAnalysis |-> <<>>, totalComments |-> NaN,
     distribution |-> allMonths]
ErrorResponse(status) == [NoResponse EXCEPT !.status = status]

\* res.json({ sentimentAnalysis, totalComments: total, distribution })
AnalysisResult(analysisResults, distribution) ==
    LET total == Total(analysisResults)
    IN  [status |-> 200,
         sentimentAnalysis |->
            [agree |-> ToFixed1(analysisResults.agree, total),
             disagree |-> ToFixed1(analysisResults.disagree, total),
             neutral |-> ToFixed1(analysisResults.neutral, total)],
         totalComments |-> total,
         distribution |-> sortMonths(distribution)]

\* -------------------------------------------------------------- state
Variants == {"sequential", "perComment", "batched"}
Runs == {"r1", "r2"}

VARIABLES
    variant,    \* which handler the deployment runs
    store,      \* the Comment collection, in insertion order
    run,        \* per request: the handler's locals and its position
    hist,       \* per request: what happened so far (observation only)
    previous,   \* the last successful request before the current one
    probe       \* a text and what the classifiers make of it

vars == <<variant, store, run, hist, previous, probe>>

\* one analyzeSentiment(comment, retries = 3, delay = 2000) in progress
NewCall ==
    [phase |-> "request", retries |-> DefaultRetries, delay |-> DefaultDelay]

IdleRun ==
    [pc |-> "idle",
     comments |-> <<>>,         \* response.data.items
     allComments |-> <<>>,      \* the batched handler's flattened groups
     sentiments |-> <<>>,       \* rateLimiter's sentiments
     batchStart |-> 0,          \* rateLimiter's i
     calls |-> <<>>,            \* the calls of the current batch
     batchResults |-> <<>>,     \* their results, in completion order
     i |-> 0,                   \* the aggregation loop's i, from 1
     analysisResults |-> ZeroResults,
     distribution |-> allMonths,
     response |-> NoResponse]

NoOutcome == [sentiment |-> "none", how |-> "none"]
NoHist ==
    [hasVideoId |-> FALSE,      \* extractVideoId(url) was not null
     invoked |-> {},            \* comments sent to the remote classifier
     cached |-> {},             \* comments whose lookup found a record
     outcome |-> [c \in CommentIds |-> NoOutcome],
     delays |-> 0,              \* inter-batch delays rateLimiter waited
     batches |-> <<>>,          \* sizes of the batches it formed
     returned |-> FALSE,        \* rateLimiter has returned
     saveFailed |-> FALSE,
     classifierFailure |-> "none",
     \* per comment, the answers its analyzeSentiment got and the backoff
     \* each of them started (written by the observed requests only)
     answers |-> [c \in CommentIds |-> <<>>]]

NoPrevious == [valid |-> FALSE, comments |-> <<>>, response |-> NoResponse]
NoProbe ==
    [text |-> <<>>, words |-> 0, sentiment |-> "none", sentimentLong |-> "none"]

Init ==
    /\ variant \in Variants
    /\ store = <<>>
    /\ run = [r \in Runs |-> IdleRun]
    /\ hist = [r \in Runs |-> NoHist]
    /\ previous = NoPrevious
    /\ probe = NoProbe

\* a pair of a request's locals and its history
St(rn, h) == [rn |-> rn, h |-> h]

Set(r, st) ==
    /\ run' = [run EXCEPT ![r] = st.rn]
    /\ hist' = [hist EXCEPT ![r] = st.h]

\* res.status(status).json({ error }) and return, or the catch of the
\* handler; the handler's locals are gone, the fetched list is kept for
\* the observer
Fail(rn, status) ==
    [IdleRun EXCEPT !.pc = "done", !.comments = rn.comments,
                    !.response = ErrorResponse(status)]

\* the handler's code after the aggregation loop
Finish(rn) ==
    [IdleRun EXCEPT !.pc = "done", !.comments = rn.comments,
                    !.response = AnalysisResult(rn.analysisResults, rn.distribution)]

\* ------------------------------------------------- deduplication store
Matches(commentId) == {k \in DOMAIN store : store[k].commentId = commentId}
\* Comment.findOne({ commentId }): the first match, or <<>> for null
findOne(commentId) ==
    IF Matches(commentId) = {} THEN <<>>
    ELSE store[CHOOSE k \in Matches(commentId) :
                   \A o \in Matches(commentId) : k <= o]

\* ---------------------------------------------------- the handler's loop
\* the analysisResults, the distribution and the first findOne of the loop
Aggregate(rn) ==
    LET rn1 == [rn EXCEPT !.analysisResults = ZeroResults,
                          !.distribution = allMonths,
                          !.calls = <<>>, !.batchResults = <<>>]
    IN  IF Len(rn.comments) = 0 THEN Finish(rn1)
        ELSE [rn1 EXCEPT !.pc = "lookup", !.i = 1]

\* i++ and the loop test
Advance(rn) ==
    IF rn.i = Len(rn.comments) THEN Finish(rn)
    ELSE [rn EXCEPT !.pc = "lookup", !.i = @ + 1]

\* ------------------------------------------------ remote classifier
\* what model.generateContent can answer to a per-comment prompt: a text,
\* or an error with a status
ResponseTexts ==
    { AGREE,
      <<" ", "D", "i", "s", "a", "g", "r", "e", "e", " ">>,
      <<"n", "e", "u", "t", "r", "a", "l">> }
RemoteOutcomes ==
    {[kind |-> "text", text |-> t, status |-> 200] : t \in ResponseTexts}
    \cup {[kind |-> "error", text |-> <<>>, status |-> s] : s \in {RateLimitStatus, 500}}

\* SentimentOfResponse and fallbackSentimentAnalysis tabulated over the
\* response texts and the comment texts of the model
ResponseSentiment == [t \in ResponseTexts |-> SentimentOfResponse(t)]
FallbackSentiment ==
    [t \in {Texts[k] : k \in DOMAIN Texts} |-> fallbackSentimentAnalysis(t)]

ResolvedCall == [phase |-> "resolved", retries |-> 0, delay |-> 0]
Unsettled(call) == [call |-> call, sentiment |-> "none", how |-> "none"]
Settled(sentiment, how) ==
    [call |-> ResolvedCall, sentiment |-> sentiment, how |-> how]

\* analyzeSentiment answering "neutral" instead of running the fallback.
analyzeSentimentNeutralOnError(comment, call, out) ==
    IF out.kind = "text"
    THEN Settled(ResponseSentiment[out.text], "remote")
    ELSE IF out.status = RateLimitStatus /\ call.retries > 0
    THEN Unsettled([call EXCEPT !.phase = "backoff"])
    ELSE Settled("neutral", "fallback")

\* analyzeSentiment giving up on the remote answer once it has retried.
analyzeSentimentFallbackAfterRetry(comment, call, out) ==
    IF out.kind = "text" /\ call.retries = DefaultRetries
    THEN Settled(ResponseSentiment[out.text], "remote")
    ELSE IF out.kind = "error" /\ out.status = RateLimitStatus /\ call.retries > 0
    THEN Unsettled([call EXCEPT !.phase = "backoff"])
    ELSE Settled(FallbackSentiment[comment], "fallback")

\* analyzeSentiment from the answer `out` to its request: the sentiment it
\* returns, or the call waiting `delay` before analyzeSentiment(comment,
\* retries - 1, delay * 2)
analyzeSentiment(comment, call, out) ==
    IF out.kind = "text"
    THEN Settled(ResponseSentiment[out.text], "remote")
    ELSE IF out.status = RateLimitStatus /\ call.retries > 0
    THEN Unsettled([call EXCEPT !.phase = "backoff"])
    ELSE Settled(FallbackSentiment[comment], "fallback")

\* A retry that does not count down the retries.
RetryUncounted(call) == [call EXCEPT !.phase = "request"]

\* A retry that keeps the delay.
RetrySameDelay(call) ==
    [phase |-> "request", retries |-> call.retries - 1, delay |-> call.delay]

\* the recursive call once the backoff timer fires
Retry(call) ==
    [phase |-> "request", retries |-> call.retries - 1, delay |-> call.delay * 2]

\* ------------------------------------------------------- rateLimiter
Min(a, b) == IF a < b THEN a ELSE b

\* A batch of all the comments that are left, whatever the size.
StartBatchAll(rn, h, start, size) ==
    LET batch == SubSeq(rn.comments, start + 1, Len(rn.comments))
    IN  St([rn EXCEPT !.pc = "classify",
                      !.batchStart = start,
                      !.calls = [k \in 1..Len(batch) |-> NewCall],
                      !.batchResults = <<>>],
           [h EXCEPT !.invoked = @ \cup Range(batch),
                     !.batches = Append(@, Len(batch))])

\* the calls of comments[start .. start + size - 1] are issued
StartBatch(rn, h, start, size) ==
    LET batch == SubSeq(rn.comments, start + 1,
                        Min(start + size, Len(rn.comments)))
    IN  St([rn EXCEPT !.pc = "classify",
                      !.batchStart = start,
                      !.calls = [k \in 1..Len(batch) |-> NewCall],
                      !.batchResults = <<>>],
           [h EXCEPT !.invoked = @ \cup Range(batch),
                     !.batches = Append(@, Len(batch))])

\* The results in the order the calls completed.
InCompletionOrder(batchResults, n) ==
    [k \in 1..n |-> batchResults[k].sentiment]

\* await Promise.all(batchPromises): the k-th value is the k-th promise's
PromiseAll(batchResults, n) ==
    [k \in 1..n |->
        (CHOOSE e \in Range(batchResults) : e.slot = k).sentiment]

\* rateLimiter returns: the handler goes on to its aggregation loop
Return(rn, h) == St(Aggregate(rn), [h EXCEPT !.returned = TRUE])

\* rateLimiter is called (both variants): an empty list returns at once
rateLimiter(rn, h) ==
    IF Len(rn.comments) = 0 THEN Return(rn, h)
    ELSE StartBatch(rn, h, 0, IF variant = "sequential" THEN 1 ELSE batchSize)

\* part_001: the sentiment is pushed, then the 2000 ms wait, after every
\* comment
SequentialSettled(rn, h, sentiment, how) ==
    LET id == rn.comments[rn.batchStart + 1]
    IN  St([rn EXCEPT !.pc = "delay",
                      !.sentiments = Append(@, sentiment),
                      !.calls = <<>>],
           [h EXCEPT !.outcome[id] = [sentiment |-> sentiment, how |-> how],
                     !.delays = @ + 1])

\* A rateLimiter that goes on as soon as one call of the batch settled.
BatchSettledRace(rn, h, k, sentiment, how) ==
    LET id == rn.comments[rn.batchStart + k]
        h1 == [h EXCEPT !.outcome[id] = [sentiment |-> sentiment, how |-> how]]
        rn1 == [rn EXCEPT !.sentiments = Append(@, sentiment),
                          !.calls = <<>>,
                          !.batchResults = <<>>]
    IN  IF rn.batchStart + batchSize < Len(rn.comments)
        THEN St([rn1 EXCEPT !.pc = "delay"], [h1 EXCEPT !.delays = @ + 1])
        ELSE Return(rn1, h1)

\* App.tsx: call k of the batch settles; with the last one Promise.all
\* resolves, the results are pushed, and the delay follows when comments
\* are left
BatchSettled(rn, h, k, sentiment, how) ==
    LET id == rn.comments[rn.batchStart + k]
        results == Append(rn.batchResults, [slot |-> k, sentiment |-> sentiment])
        calls == [rn.calls EXCEPT ![k] = ResolvedCall]
        h1 == [h EXCEPT !.outcome[id] = [sentiment |-> sentiment, how |-> how]]
        rn1 == [rn EXCEPT !.sentiments = @ \o PromiseAll(results, Len(calls)),
                          !.calls = <<>>,
                          !.batchResults = <<>>]
    IN  IF \E j \in DOMAIN calls : calls[j].phase # "resolved"
        THEN St([rn EXCEPT !.calls = calls, !.batchResults = results], h1)
        ELSE IF rn.batchStart + batchSize < Len(rn.comments)
        THEN St([rn1 EXCEPT !.pc = "delay"], [h1 EXCEPT !.delays = @ + 1])
        ELSE Return(rn1, h1)

\* ---------------------------------------------------- batched handler
\* groupCommentsByMonth: the months in the order they first appear
RECURSIVE MonthKeys(_, _)
MonthKeys(items, keys) ==
    IF items = <<>> THEN keys
    ELSE LET month == MonthShort(publishedAt(Head(items)))
         IN  MonthKeys(Tail(items),
                       IF month \in Range(keys) THEN keys
                       ELSE Append(keys, month))
InMonth(items, month) ==
    SelectSeq(items, LAMBDA c : MonthShort(publishedAt(c)) = month)
\* Object.values(groupedComments).flat()
RECURSIVE Flat(_, _)
Flat(keys, items) ==
    IF keys = <<>> THEN <<>>
    ELSE InMonth(items, Head(keys)) \o Flat(Tail(keys), items)
groupCommentsByMonth(items) == Flat(MonthKeys(items, <<>>), items)

\* the values a parsed response can give to a comment number
BatchLabels == {AGREE, DISAGREE, NEUTRAL, <<"M", "a", "y", "b", "e">>}
\* what analyzeAllComments can get for n comments: an error of the call,
\* a text JSON.parse rejects, or an object from some of the comment
\* numbers to labels
BatchedOutcomes(n) ==
    {[kind |-> "error", labels |-> <<>>],
     [kind |-> "unparseable", labels |-> <<>>]}
    \cup {[kind |-> "parsed", labels |-> f] :
            f \in UNION {[d -> BatchLabels] : d \in SUBSET (1..n)}}

\* sentiment.toLowerCase() as a key of analysisResults
KeyOf(label) ==
    LET key == toLowerCase(label)
    IN  IF key = toLowerCase(AGREE) THEN "agree"
        ELSE IF key = toLowerCase(DISAGREE) THEN "disagree"
        ELSE IF key = toLowerCase(NEUTRAL) THEN "neutral"
        ELSE "other"

\* analysisResults[sentiment.toLowerCase()]++: a key that is not there
\* becomes NaN
CountLabel(analysisResults, label) ==
    IF KeyOf(label) \in Sentiments
    THEN CountSentiment(analysisResults, KeyOf(label))
    ELSE [analysisResults EXCEPT !.other = TRUE]

\* allComments.forEach(...) from comment number `index` on; a comment
\* number missing in sentimentResults throws (undefined.toLowerCase())
RECURSIVE ForEach(_, _, _)
ForEach(rn, sentimentResults, index) ==
    IF index > Len(rn.allComments) THEN Finish(rn)
    ELSE IF index \notin DOMAIN sentimentResults THEN Fail(rn, 500)
    ELSE ForEach(
            [rn EXCEPT
                !.analysisResults = CountLabel(@, sentimentResults[index]),
                !.distribution =
                    CountMonth(@, MonthShort(publishedAt(rn.allComments[index])))],
            sentimentResults, index + 1)

\* why the classification failed, for the history
Failure(n, out) ==
    IF out.kind # "parsed" THEN out.kind
    ELSE IF \E index \in 1..n : index \notin DOMAIN out.labels THEN "missingIndex"
    ELSE IF \E index \in 1..n : KeyOf(out.labels[index]) = "other" THEN "invalidLabel"
    ELSE "none"

\* ------------------------------------------------- per-comment handler
\* the branch of an existing comment (part_001 204-209)
CountExistingFresh(rn, existingComment) ==
    [rn EXCEPT
        !.analysisResults = CountSentiment(@, rn.sentiments[rn.i]),
        !.distribution = CountMonth(@, MonthShort(existingComment.timestamp))]

CountExisting(rn, existingComment) ==
    [rn EXCEPT
        !.analysisResults = CountSentiment(@, existingComment.sentiment),
        !.distribution = CountMonth(@, MonthShort(existingComment.timestamp))]

\* the branch of a new comment up to Comment.create (part_001 211-222)
CountNew(rn, commentId) ==
    [rn EXCEPT
        !.pc = "save",
        !.analysisResults = CountSentiment(@, rn.sentiments[rn.i]),
        !.distribution = CountMonth(@, MonthShort(publishedAt(commentId)))]

\* the document of Comment.create; videoId, maskedUsername and comment
\* are not read by the pipeline and are left out
NewComment(rn, commentId) ==
    [commentId |-> commentId,
     sentiment |-> rn.sentiments[rn.i],
     timestamp |-> publishedAt(commentId)]

\* ------------------------------------------------------------ actions
\* what commentThreads.list can give: an error, no items, a page
FetchOutcomes ==
    {[kind |-> "error", items |-> <<>>], [kind |-> "missing", items |-> <<>>]}
    \cup {[kind |-> "items", items |-> page] : page \in Pages}

\* A handler that asks for the comments whatever the url.
ArriveUnchecked(r, url, observe) ==
    /\ run[r].pc \in {"idle", "done"}
    /\ run' = [run EXCEPT ![r] = [IdleRun EXCEPT !.pc = "fetch"]]
    /\ hist' = [hist EXCEPT ![r] =
                  [NoHist EXCEPT !.hasVideoId = (extractVideoId(url) # <<>>)]]
    /\ UNCHANGED <<variant, store, previous, probe>>

\* POST /api/analyze arrives: the url is checked, the comments are asked
\* for.  With `observe`, the successful request that ended before this one
\* is remembered in `previous`.
Arrive(r, url, observe) ==
    /\ run[r].pc \in {"idle", "done"}
    /\ LET videoId == extractVideoId(url)
       IN  /\ run' = [run EXCEPT ![r] =
                        IF videoId = <<>> THEN Fail(IdleRun, 400)
                        ELSE [IdleRun EXCEPT !.pc = "fetch"]]
           /\ hist' = [hist EXCEPT ![r] =
                         [NoHist EXCEPT !.hasVideoId = (videoId # <<>>)]]
    /\ previous' =
         IF observe /\ run[r].pc = "done" /\ run[r].response.status = 200
         THEN [valid |-> TRUE, comments |-> run[r].comments,
               response |-> run[r].response]
         ELSE previous
    /\ UNCHANGED <<variant, store, probe>>

Start(r, url) == Arrive(r, url, FALSE)
StartAgain(r, url) == Arrive(r, url, TRUE)

\* commentThreads.list returns; the handler runs to its next await
FetchReturns(r, fetched) ==
    /\ run[r].pc = "fetch"
    /\ LET rn == [run[r] EXCEPT !.comments = fetched.items]
           h == hist[r]
       IN  IF fetched.kind = "error" THEN Set(r, St(Fail(run[r], 500), h))
           ELSE IF fetched.kind = "missing" THEN Set(r, St(Fail(run[r], 404), h))
           ELSE IF variant = "batched"
           THEN Set(r, St([rn EXCEPT !.pc = "analyzeAll",
                                     !.allComments = groupCommentsByMonth(fetched.items)],
                          [h EXCEPT !.invoked = Range(fetched.items)]))
           ELSE Set(r, rateLimiter(rn, h))
    /\ UNCHANGED <<variant, store, previous, probe>>

\* the remote classifier answers call k of the current batch.  With
\* `observe`, the answer and the backoff it starts (0 for none) are written
\* to the history.
Respond(r, k, out, observe) ==
    /\ run[r].pc = "classify"
    /\ k \in DOMAIN run[r].calls
    /\ run[r].calls[k].phase = "request"
    /\ LET rn == run[r]
           id == rn.comments[rn.batchStart + k]
           a == analyzeSentiment(textDisplay(id), rn.calls[k], out)
           wait == IF a.call.phase = "backoff" THEN a.call.delay ELSE 0
           h == IF observe
                THEN [hist[r] EXCEPT !.answers[id] =
                         Append(@, [answer |-> out, wait |-> wait])]
                ELSE hist[r]
       IN  IF a.sentiment = "none"
           THEN Set(r, St([rn EXCEPT !.calls[k] = a.call], h))
           ELSE IF variant = "sequential"
           THEN Set(r, SequentialSettled(rn, h, a.sentiment, a.how))
           ELSE Set(r, BatchSettled(rn, h, k, a.sentiment, a.how))
    /\ UNCHANGED <<variant, store, previous, probe>>

RemoteResponds(r, k, out) == Respond(r, k, out, FALSE)
RemoteRespondsObserved(r, k, out) == Respond(r, k, out, TRUE)

\* the backoff timer of call k fires: the request is sent again
BackoffElapses(r, k) ==
    /\ run[r].pc = "classify"
    /\ k \in DOMAIN run[r].calls
    /\ run[r].calls[k].phase = "backoff"
    /\ run' = [run EXCEPT ![r].calls[k] = Retry(@)]
    /\ UNCHANGED <<variant, store, hist, previous, probe>>

\* the delay after a batch (after a comment, in part_001) is over
DelayElapses(r) ==
    /\ run[r].pc = "delay"
    /\ LET rn == run[r]
           h == hist[r]
       IN  IF variant = "sequential"
           THEN IF rn.batchStart + 1 < Len(rn.comments)
                THEN Set(r, StartBatch(rn, h, rn.batchStart + 1, 1))
                ELSE Set(r, Return(rn, h))
           ELSE Set(r, StartBatch(rn, h, rn.batchStart + batchSize, batchSize))
    /\ UNCHANGED <<variant, store, previous, probe>>

\* A lookup that writes the sentiment of this request into the record it
\* found.
LookupReturnsRefresh(r, ok) ==
    /\ run[r].pc = "lookup"
    /\ LET rn == run[r]
           h == hist[r]
           commentId == rn.comments[rn.i]
       IN  IF ~ok THEN Set(r, St(Fail(rn, 500), h)) /\ store' = store
           ELSE IF Matches(commentId) # {}
           THEN /\ Set(r, St(Advance(CountExisting(rn, findOne(commentId))),
                             [h EXCEPT !.cached = @ \cup {commentId}]))
                /\ store' = [k \in DOMAIN store |->
                               IF store[k].commentId = commentId
                               THEN [store[k] EXCEPT !.sentiment = rn.sentiments[rn.i]]
                               ELSE store[k]]
           ELSE Set(r, St(CountNew(rn, commentId), h)) /\ store' = store
    /\ UNCHANGED <<variant, previous, probe>>

\* A lookup that never finds the record.
LookupReturnsNotFound(r, ok) ==
    /\ run[r].pc = "lookup"
    /\ LET rn == run[r]
           h == hist[r]
           commentId == rn.comments[rn.i]
       IN  IF ~ok THEN Set(r, St(Fail(rn, 500), h))
           ELSE Set(r, St(CountNew(rn, commentId), h))
    /\ UNCHANGED <<variant, store, previous, probe>>

\* Comment.findOne returns (ok) or rejects
LookupReturns(r, ok) ==
    /\ run[r].pc = "lookup"
    /\ LET rn == run[r]
           h == hist[r]
           commentId == rn.comments[rn.i]
       IN  IF ~ok THEN Set(r, St(Fail(rn, 500), h))
           ELSE IF Matches(commentId) # {}
           THEN Set(r, St(Advance(CountExisting(rn, findOne(commentId))),
                          [h EXCEPT !.cached = @ \cup {commentId}]))
           ELSE Set(r, St(CountNew(rn, commentId), h))
    /\ UNCHANGED <<variant, store, previous, probe>>

\* A store that rejects the save of an identifier it already holds.
SaveReturnsUnique(r, ok) ==
    /\ run[r].pc = "save"
    /\ LET rn == run[r]
           h == hist[r]
           commentId == rn.comments[rn.i]
       IN  IF ok /\ Matches(commentId) = {}
           THEN /\ store' = Append(store, NewComment(rn, commentId))
                /\ Set(r, St(Advance(rn), h))
           ELSE /\ store' = store
                /\ Set(r, St(Fail(rn, 500), [h EXCEPT !.saveFailed = TRUE]))
    /\ UNCHANGED <<variant, previous, probe>>

\* A save that, when it fails, takes back the records the request saved.
SaveReturnsRollback(r, ok) ==
    /\ run[r].pc = "save"
    /\ LET rn == run[r]
           h == hist[r]
           commentId == rn.comments[rn.i]
           saved == {rn.comments[j] : j \in 1..(rn.i - 1)} \ h.cached
       IN  IF ok
           THEN /\ store' = Append(store, NewComment(rn, commentId))
                /\ Set(r, St(Advance(rn), h))
           ELSE /\ store' = SelectSeq(store, LAMBDA rec : rec.commentId \notin saved)
                /\ Set(r, St(Fail(rn, 500), [h EXCEPT !.saveFailed = TRUE]))
    /\ UNCHANGED <<variant, previous, probe>>

\* Comment.create returns (ok) or rejects
SaveReturns(r, ok) ==
    /\ run[r].pc = "save"
    /\ LET rn == run[r]
           h == hist[r]
           commentId == rn.comments[rn.i]
       IN  IF ok
           THEN /\ store' = Append(store, NewComment(rn, commentId))
                /\ Set(r, St(Advance(rn), h))
           ELSE /\ store' = store
                /\ Set(r, St(Fail(rn, 500), [h EXCEPT !.saveFailed = TRUE]))
    /\ UNCHANGED <<variant, previous, probe>>

\* analyzeAllComments gets its answer; the batched handler runs to its end
AllResponds(r) ==
    /\ run[r].pc = "analyzeAll"
    /\ \E out \in BatchedOutcomes(Len(run[r].allComments)) :
         LET rn == run[r]
             h == [hist[r] EXCEPT
                      !.classifierFailure = Failure(Len(rn.allComments), out)]
         IN  IF out.kind # "parsed" THEN Set(r, St(Fail(rn, 500), h))
             ELSE Set(r, St(ForEach(rn, out.labels, 1), h))
    /\ UNCHANGED <<variant, store, previous, probe>>

\* the steps of a request after its arrival in the per-comment variants
PerCommentStep(r) ==
    \/ \E fetched \in FetchOutcomes : FetchReturns(r, fetched)
    \/ \E k \in 1..MaxComments, out \in RemoteOutcomes : RemoteResponds(r, k, out)
    \/ \E k \in 1..MaxComments : BackoffElapses(r, k)
    \/ DelayElapses(r)
    \/ \E ok \in BOOLEAN : LookupReturns(r, ok)
    \/ \E ok \in BOOLEAN : SaveReturns(r, ok)

Step(r) ==
    \/ \E url \in Urls : Start(r, url)
    \/ \E fetched \in FetchOutcomes : FetchReturns(r, fetched)
    \/ \E k \in 1..MaxComments, out \in RemoteOutcomes : RemoteResponds(r, k, out)
    \/ \E k \in 1..MaxComments : BackoffElapses(r, k)
    \/ DelayElapses(r)
    \/ \E ok \in BOOLEAN : LookupReturns(r, ok)
    \/ \E ok \in BOOLEAN : SaveReturns(r, ok)
    \/ AllResponds(r)

\* one request at a time
Next == \E r \in {"r1"} : Step(r)

Spec == Init /\ [][Next]_vars

\* part_001 serving one request after the other, each successful request
\* remembered for the next one
InitRerun == Init /\ variant = "sequential"
NextRerun ==
    \E r \in {"r1"} :
        \/ \E url \in Urls : StartAgain(r, url)
        \/ PerCommentStep(r)
SpecRerun == InitRerun /\ [][NextRerun]_vars

\* One request up to the return of rateLimiter, in the two variants that
\* call analyzeSentiment, every answer of the remote classifier observed
InitCalls == Init /\ variant \in {"sequential", "perComment"}
NextCalls ==
    \E r \in {"r1"} :
        \/ \E url \in Urls : Start(r, url)
        \/ \E fetched \in FetchOutcomes : FetchReturns(r, fetched)
        \/ \E k \in 1..MaxComments, out \in RemoteOutcomes :
              RemoteRespondsObserved(r, k, out)
        \/ \E k \in 1..MaxComments : BackoffElapses(r, k)
        \/ DelayElapses(r)
SpecCalls == InitCalls /\ [][NextCalls]_vars

\* The two text functions alone, on texts put together from up to MaxWords
\* pieces
ResponseWords ==
    { <<"A", "G", "R", "E", "E">>, <<"D", "i", "s", "a", "g", "r", "e", "e">>,
      <<"n", "e", "u", "t", "r", "a", "l">>, <<" ">>,
      <<"I", " ">>, <<"d", "i", "s">> }
CommentWords ==
    { <<"G", "o", "o", "d">>, <<"b", "a", "d">>, <<"L", "O", "V", "E">>,
      <<"d", "i", "s", "l", "i", "k", "e">>, <<"c", "o", "o", "l">>, <<" ">> }

\* the response `text` grows by a piece and is read as analyzeSentiment
\* reads it
Parse(word) ==
    /\ probe.words < MaxWords
    /\ LET text == probe.text \o word
       IN  probe' = [probe EXCEPT !.text = text,
                                  !.words = @ + 1,
                                  !.sentiment = SentimentOfResponse(text)]
    /\ UNCHANGED <<variant, store, run, hist, previous>>

NextParse == \E word \in ResponseWords : Parse(word)
SpecParse == InitRerun /\ [][NextParse]_vars

\* the comment grows by a piece and is classified by both fallback
\* classifiers
Classify(word) ==
    /\ probe.words < MaxWords
    /\ LET text == probe.text \o word
       IN  probe' = [probe EXCEPT !.text = text,
                                  !.words = @ + 1,
                                  !.sentiment = fallbackSentimentAnalysis(text),
                                  !.sentimentLong = fallbackSentimentAnalysisLong(text)]
    /\ UNCHANGED <<variant, store, run, hist, previous>>

NextFallback == \E word \in CommentWords : Classify(word)
SpecFallback == InitRerun /\ [][NextFallback]_vars

\* The aggregator alone: one more comment of some sentiment is counted and
\* the handler's closing code (total, percentages, response) is applied to
\* the counters.  The months are not counted here.
Tally(r, sentiment) ==
    /\ run[r].pc \in {"idle", "tally"}
    /\ Total(run[r].analysisResults).value < MaxTotal
    /\ LET analysisResults == CountSentiment(run[r].analysisResults, sentiment)
       IN  run' = [run EXCEPT ![r] =
                     [Finish([run[r] EXCEPT !.analysisResults = analysisResults])
                         EXCEPT !.pc = "tally",
                                !.analysisResults = analysisResults]]
    /\ UNCHANGED <<variant, store, hist, previous, probe>>

NextTotals == \E r \in {"r1"}, sentiment \in Sentiments : Tally(r, sentiment)
SpecTotals == InitRerun /\ [][NextTotals]_vars

\* Two requests to part_001 that overlap: each of them arrives once, on
\* an empty store, and their steps interleave at every await.  The store answers
\* every lookup and every save.
FirstStart(r, url) == run[r].pc = "idle" /\ Start(r, url)
NextRace ==
    \E r \in Runs :
        \/ \E url \in Urls : FirstStart(r, url)
        \/ \E fetched \in {f \in FetchOutcomes : Len(f.items) <= MaxRacePage} :
              FetchReturns(r, fetched)
        \/ \E k \in 1..MaxComments, out \in RemoteOutcomes : RemoteResponds(r, k, out)
        \/ \E k \in 1..MaxComments : BackoffElapses(r, k)
        \/ DelayElapses(r)
        \/ LookupReturns(r, TRUE)
        \/ SaveReturns(r, TRUE)
SpecRace == InitRerun /\ [][NextRace]_vars

\* One request, on a store that is empty or holds the record an earlier
\* request on the page <<1>> left.  Every pending external call (comment
\* source, classifier, store) and every timer (backoff, delay) resolves at
\* some time; what the comment source, the classifier and the store answer
\* stays free.
StoredBefore ==
    { <<>>,
      <<[commentId |-> 1, sentiment |-> "neutral", timestamp |-> publishedAt(1)]>> }
InitLive ==
    /\ variant \in Variants
    /\ store \in StoredBefore
    /\ run = [r \in Runs |-> IdleRun]
    /\ hist = [r \in Runs |-> NoHist]
    /\ previous = NoPrevious
    /\ probe = NoProbe
Resolve(r) == PerCommentStep(r) \/ AllResponds(r)
NextLive ==
    \E r \in {"r1"} :
        \/ \E url \in Urls : FirstStart(r, url)
        \/ Resolve(r)
SpecLive ==
    InitLive /\ [][NextLive]_vars /\ WF_vars(\E r \in {"r1"} : Resolve(r))

\* A request on an empty store, and a later request that arrives when the
\* first one has ended, in the two variants that use the store, on pages
\* of up to MaxRacePage comments
ShortPageStep(r) ==
    \/ \E fetched \in {f \in FetchOutcomes : Len(f.items) <= MaxRacePage} :
          FetchReturns(r, fetched)
    \/ \E k \in 1..MaxComments, out \in RemoteOutcomes : RemoteResponds(r, k, out)
    \/ \E k \in 1..MaxComments : BackoffElapses(r, k)
    \/ DelayElapses(r)
    \/ \E ok \in BOOLEAN : LookupReturns(r, ok)
    \/ \E ok \in BOOLEAN : SaveReturns(r, ok)
NextLater ==
    \/ \E url \in Urls : FirstStart("r1", url)
    \/ ShortPageStep("r1")
    \/ run["r1"].pc = "done" /\ \E url \in Urls : FirstStart("r2", url)
    \/ ShortPageStep("r2")
SpecLater == InitCalls /\ [][NextLater]_vars

\* ------------------------------------------------------------ claims
Done(r) == run[r].pc = "done"
Succeeded(r) == run[r].response.status = 200
PerComment == variant \in {"sequential", "perComment"}
Abs(x) == IF x < 0 THEN -x ELSE x

\* C1: the remote classifier is invoked only for comments whose identifier
\* is not found in the store; a request whose comments are all stored
\* makes no remote call.
C1_ClassifyOnlyNew ==
    \A r \in Runs : hist[r].invoked \cap hist[r].cached = {}

\* C2: when a request succeeded and the next successful request fetches
\* the same comments, the second returns the same AnalysisResult as the
\* first (percentages, totalComments, distribution), whatever the remote
\* classifier answered during the second.
C2_RerunSameResult ==
    \A r \in Runs :
        (Succeeded(r) /\ previous.valid /\ previous.comments = run[r].comments)
            => run[r].response = previous.response

\* a second request on three comments, all of them found in the store,
\* during which the classifier resolved a comment to another sentiment
\* than the stored one
C2_Witness ==
    \E r \in Runs :
        /\ Succeeded(r) /\ previous.valid
        /\ previous.comments = run[r].comments
        /\ Len(run[r].comments) = 3
        /\ hist[r].cached = Range(run[r].comments)
        /\ \E c \in hist[r].invoked :
              /\ Matches(c) # {}
              /\ hist[r].outcome[c].sentiment # findOne(c).sentiment

\* C3: rateLimiter's sentiments are as many as the comments and the i-th
\* is the one resolved for the i-th comment, in every completion order of
\* a batch's calls and with every pattern of retries and fallbacks.
C3_OrderPreserved ==
    \A r \in Runs :
        run[r].pc \in {"classify", "delay", "lookup", "save"} =>
            /\ Len(run[r].sentiments) <= Len(run[r].comments)
            /\ \A i \in 1..Len(run[r].sentiments) :
                  run[r].sentiments[i]
                      = hist[r].outcome[run[r].comments[i]].sentiment
            /\ hist[r].returned
                  => Len(run[r].sentiments) = Len(run[r].comments)

\* the batched rateLimiter has returned three sentiments from two batches,
\* no two of them equal, one from the fallback
C3_Witness ==
    \E r \in Runs :
        /\ variant = "perComment" /\ hist[r].returned
        /\ run[r].pc = "lookup"
        /\ hist[r].batches = <<2, 1>>
        /\ run[r].sentiments = <<"neutral", "disagree", "agree">>
        /\ hist[r].outcome[2].how = "fallback"

\* C4: a failing save does not abort the request: it still answers with a
\* successful AnalysisResult.
C4_SaveFailureTolerated ==
    \A r \in Runs : hist[r].saveFailed => ~(Done(r) /\ run[r].response.status # 200)

C6_BatchedFailureDowngraded ==
    \A r \in Runs :
        (variant = "batched" /\ Done(r) /\ hist[r].classifierFailure # "none")
            => /\ run[r].response.status = 200
               /\ run[r].response.totalComments.kind = "number"

\* C7: when the comment source returns no comment, the result is defined:
\* no percentage comes from a division by a total of zero.
C7_EmptyListDefined ==
    \A r \in Runs :
        (Succeeded(r) /\ Len(run[r].comments) = 0)
            => \A k \in Sentiments :
                  run[r].response.sentimentAnalysis[k].kind = "number"

\* C8: in every successful AnalysisResult the distribution has the twelve
\* keys Jan..Dec, its values are non-negative integers, and they sum to
\* totalComments, which is the number of fetched comments.
C8_DistributionSumsToTotal ==
    \A r \in Runs :
        Succeeded(r) =>
            LET d == run[r].response.distribution
            IN  /\ DOMAIN d = Range(months)
                /\ \A m \in DOMAIN d : d[m] \in Nat
                /\ run[r].response.totalComments = Num(SumOver(d, DOMAIN d))
                /\ run[r].response.totalComments = Num(Len(run[r].comments))

\* the three percentages of a response, in tenths, added up
PercentSum(response) ==
    response.sentimentAnalysis.agree.value
    + response.sentimentAnalysis.disagree.value
    + response.sentimentAnalysis.neutral.value

\* C9: with at least one classified comment, the three percentages (each
\* count / total * 100 rounded to one decimal) sum to a value within 0.1
\* of 100.0.  PercentSum is in tenths of a percent.
C9_PercentagesSum ==
    \A r \in Runs :
        (/\ Succeeded(r)
         /\ run[r].response.totalComments.kind = "number"
         /\ run[r].response.totalComments.value > 0)
            => /\ \A k \in Sentiments :
                     run[r].response.sentimentAnalysis[k].kind = "number"
               /\ Abs(PercentSum(run[r].response) - 1000) <= 1

\* sixteen comments, 1 agree, 1 disagree, 14 neutral: 6.3 + 6.3 + 87.5
\* = 100.1 (two ties rounded up)
C9_Witness ==
    \E r \in Runs :
        /\ Succeeded(r)
        /\ run[r].response.totalComments = Num(16)
        /\ run[r].response.sentimentAnalysis.agree = Num(63)
        /\ PercentSum(run[r].response) = 1001

\* the batch sizes for n comments in batches of b
ExpectedBatches(n, b) ==
    [k \in 1..((n + b - 1) \div b) |-> IF k * b <= n THEN b ELSE n - (k - 1) * b]

\* the batch size of the deployed rateLimiter (part_001's takes the
\* comments one by one)
SizeOfBatch == IF variant = "sequential" THEN 1 ELSE batchSize

\* C10: for n comments and batch size b, rateLimiter forms ceil(n/b)
\* batches, all of size b but possibly the last, and waits the inter-batch
\* delay ceil(n/b) - 1 times (0 times for n = 0): none after the last
\* batch.
C10_BatchesAndDelays ==
    \A r \in Runs :
        (PerComment /\ hist[r].returned) =>
            LET n == Len(run[r].comments)
            IN  /\ hist[r].batches = ExpectedBatches(n, SizeOfBatch)
                /\ hist[r].delays =
                      IF n = 0 THEN 0 ELSE Len(ExpectedBatches(n, SizeOfBatch)) - 1

\* the answers of the remote classifier to the call of comment c: all but
\* the last are rate-limit errors, the last is a text
RetriedThenAnswered(log) ==
    /\ Len(log) >= 2
    /\ Len(log) <= DefaultRetries + 1
    /\ \A p \in 1..(Len(log) - 1) :
          log[p].answer.kind = "error" /\ log[p].answer.status = RateLimitStatus
    /\ log[Len(log)].answer.kind = "text"

\* C11: a call that meets rate-limit errors on its first k attempts (k
\* within the retry bound) and then gets a response resolves to the
\* sentiment read from that response; the fallback classifier is not used.
C11_RetryThenSuccess ==
    \A r \in Runs : \A c \in CommentIds :
        LET log == hist[r].answers[c]
        IN  (RetriedThenAnswered(log) /\ hist[r].outcome[c] # NoOutcome)
                => hist[r].outcome[c] =
                      [sentiment |-> ResponseSentiment[log[Len(log)].answer.text],
                       how |-> "remote"]

\* comment 1, whose keywords say "agree": rate limit, rate limit, then the
\* response "neutral" on the third attempt
C11_Witness ==
    \E r \in Runs :
        /\ Len(hist[r].answers[1]) = 3
        /\ RetriedThenAnswered(hist[r].answers[1])
        /\ hist[r].answers[1][3].answer.text = <<"n", "e", "u", "t", "r", "a", "l">>
        /\ hist[r].outcome[1].sentiment = "neutral"
        /\ FallbackSentiment[textDisplay(1)] = "agree"

\* C12: with requests served one after the other and identifiers unique
\* within a page, the store never holds two records of one comment
\* identifier.
C12_OneRecordPerId ==
    \A c \in CommentIds : Cardinality(Matches(c)) <= 1

\* a successful request on three comments that found comment 1 stored by
\* an earlier request and saved the two others
C12_Witness ==
    \E r \in Runs :
        /\ Done(r) /\ Succeeded(r)
        /\ Len(run[r].comments) = 3
        /\ hist[r].cached = {1}
        /\ Len(store) = 3

\* C13: after a successful request every fetched comment identifier has a
\* record in the store, whichever handler served the request.
C13_AllFetchedSaved ==
    \A r \in Runs :
        (Done(r) /\ Succeeded(r))
            => \A c \in Range(run[r].comments) : Matches(c) # {}

BatchOf(i) == (i - 1) \div SizeOfBatch

\* C15: no call of a later batch is started before every call of the
\* batches before it has resolved (with a remote result or a fallback),
\* calls waiting in a retry backoff included.
C15_BatchesInSequence ==
    \A r \in Runs :
        PerComment =>
            \A i, j \in DOMAIN run[r].comments :
                (BatchOf(i) < BatchOf(j) /\ run[r].comments[j] \in hist[r].invoked)
                    => hist[r].outcome[run[r].comments[i]] # NoOutcome

\* three comments in batches of two: the call of comment 2 has resolved,
\* the call of comment 1 waits in its backoff, comment 3 is not started
C15_Witness ==
    \E r \in Runs :
        /\ variant = "perComment" /\ run[r].pc = "classify"
        /\ run[r].comments = <<1, 2, 3>>
        /\ run[r].batchStart = 0
        /\ run[r].calls[1].phase = "backoff"
        /\ run[r].calls[2].phase = "resolved"
        /\ hist[r].invoked = {1, 2}

\* the calls started and not resolved
InFlight(r) == {c \in hist[r].invoked : hist[r].outcome[c] = NoOutcome}

\* C16: in the per-comment variants the number of classification calls in
\* flight (started and not resolved, retries and backoff waits counted)
\* never exceeds the batch size.
C16_InFlightBounded ==
    \A r \in Runs : PerComment => Cardinality(InFlight(r)) <= SizeOfBatch

\* a full batch in flight: one call waits in its second backoff, the other
\* waits for its first answer
C16_Witness ==
    \E r \in Runs :
        /\ variant = "perComment" /\ run[r].pc = "classify"
        /\ Cardinality(InFlight(r)) = batchSize
        /\ run[r].calls[1] = [phase |-> "backoff", retries |-> 2, delay |-> 4000]
        /\ run[r].calls[2] = NewCall

\* the waits before the first, second and third retry, in ms
BackoffWaits == <<2000, 4000, 8000>>
RateLimited(answer) == answer.kind = "error" /\ answer.status = 429

\* C17: for one comment, a retry follows only an answer with the rate-limit
\* status, at most 3 retries follow the first request, the wait before the
\* p-th retry is 2000, 4000, 8000 ms, and a failure with another status is
\* followed by no wait and no retry.
C17_RetryTiming ==
    \A r \in Runs : \A c \in CommentIds :
        LET log == hist[r].answers[c]
        IN  /\ Len(log) <= 1 + 3
            /\ \A p \in DOMAIN log :
                  /\ p < Len(log) =>
                        RateLimited(log[p].answer) /\ log[p].wait = BackoffWaits[p]
                  /\ log[p].wait # 0 =>
                        /\ RateLimited(log[p].answer)
                        /\ p <= 3
                        /\ log[p].wait = BackoffWaits[p]
                  /\ ~RateLimited(log[p].answer) =>
                        /\ log[p].wait = 0
                        /\ p = Len(log)
                        /\ hist[r].outcome[c] # NoOutcome

\* a call answered with the rate-limit status four times: three waits,
\* then the fallback; and a call that failed once with status 500
C17_Witness ==
    \E r \in Runs :
        /\ Len(hist[r].answers[1]) = 4
        /\ \A p \in 1..4 : RateLimited(hist[r].answers[1][p].answer)
        /\ [p \in 1..4 |-> hist[r].answers[1][p].wait] = <<2000, 4000, 8000, 0>>
        /\ hist[r].outcome[1].how = "fallback"
        /\ Len(hist[r].answers[2]) = 1
        /\ hist[r].answers[2][1].answer.status = 500
        /\ hist[r].outcome[2].how = "fallback"

\* the label word AGREE somewhere else than at the end of DISAGREE
AgreeOutsideDisagree(text) ==
    \E k \in 1..(Len(text) - 4) :
        /\ SubSeq(text, k, k + 4) = AGREE
        /\ ~(k > 3 /\ SubSeq(text, k - 3, k + 4) = DISAGREE)

\* the sentiment the three cases of C18 give to a response text
SentimentByLabelWords(responseText) ==
    LET text == toUpperCase(responseText)
    IN  IF AgreeOutsideDisagree(text) THEN "agree"
        ELSE IF includes(text, DISAGREE) THEN "disagree"
        ELSE "neutral"

\* C18: the response text is read without regard to case: with AGREE (in
\* another place than inside DISAGREE) it resolves to agree, whether or
\* not it also holds DISAGREE; with DISAGREE and no other AGREE it
\* resolves to disagree; with neither it resolves to neutral.
C18_ResponseMapping ==
    probe.words > 0 => probe.sentiment = SentimentByLabelWords(probe.text)

\* how often the term w occurs in the text s: its start positions
Occurrences(s, w) ==
    Cardinality({k \in 1..(Len(s) - Len(w) + 1) : SubSeq(s, k, k + Len(w) - 1) = w})

\* the comparison of the positive count with the negative count
ByCounts(positiveCount, negativeCount) ==
    IF positiveCount > negativeCount THEN "agree"
    ELSE IF negativeCount > positiveCount THEN "disagree"
    ELSE "neutral"

\* the occurrences of all the terms of a list in the lower-cased comment
AllOccurrences(words, comment) ==
    LET n == [k \in DOMAIN words |-> Occurrences(toLowerCase(comment), words[k])]
    IN  SumOver(n, DOMAIN n)

\* the terms of a list that occur in the lower-cased comment at least once
TermsPresent(words, comment) ==
    Cardinality({w \in Range(words) : Occurrences(toLowerCase(comment), w) > 0})

\* C19 as stated: the classifier compares the number of occurrences of
\* positive terms with the number of occurrences of negative terms in the
\* lower-cased text, a term that occurs twice being counted twice.
C19_ByOccurrences ==
    probe.words > 0 =>
        /\ probe.sentiment =
              ByCounts(AllOccurrences(positiveWords, probe.text),
                       AllOccurrences(negativeWords, probe.text))
        /\ probe.sentimentLong =
              ByCounts(AllOccurrences(positiveWordsLong, probe.text),
                       AllOccurrences(negativeWordsLong, probe.text))

\* C19: the fallback classifier lower-cases the text, counts how many of
\* the positive terms and how many of the negative terms occur in it as
\* substrings (a term counts once however often it occurs), and returns
\* agree when the positive count is greater, disagree when the negative
\* count is greater, neutral otherwise; it always returns a sentiment.
C19_ByTermsPresent ==
    probe.words > 0 =>
        /\ probe.sentiment \in Sentiments
        /\ probe.sentiment =
              ByCounts(TermsPresent(positiveWords, probe.text),
                       TermsPresent(negativeWords, probe.text))
        /\ probe.sentimentLong =
              ByCounts(TermsPresent(positiveWordsLong, probe.text),
                       TermsPresent(negativeWordsLong, probe.text))

\* "GoodGoodbad": good occurs twice and bad once, one positive term and
\* one negative term are present, and both classifiers say neutral
C19_Witness ==
    /\ probe.words = 3
    /\ AllOccurrences(positiveWords, probe.text) = 2
    /\ AllOccurrences(negativeWords, probe.text) = 1
    /\ TermsPresent(positiveWords, probe.text) = 1
    /\ probe.sentiment = "neutral"
    /\ probe.sentimentLong = "neutral"

\* C20: a comment found in the store is counted with the stored sentiment
\* and the month of the stored timestamp, and no step changes or removes a
\* record: the store only grows, by one record at a time, for the
\* identifier a request is saving after its lookup found nothing.
C20_StoredRecordKept ==
    [][/\ Len(store') \in {Len(store), Len(store) + 1}
       /\ \A k \in DOMAIN store : store'[k] = store[k]
       /\ Len(store') = Len(store) + 1 =>
             /\ Matches(store'[Len(store')].commentId) = {}
             /\ \E r \in Runs :
                   /\ run[r].pc = "save"
                   /\ run[r].comments[run[r].i] = store'[Len(store')].commentId
       /\ \A r \in Runs :
             (run[r].pc = "lookup" /\ hist'[r].cached # hist[r].cached) =>
                 LET existingComment == findOne(run[r].comments[run[r].i])
                     analysisResults ==
                         CountSentiment(run[r].analysisResults,
                                        existingComment.sentiment)
                     distribution ==
                         CountMonth(run[r].distribution,
                                    MonthShort(existingComment.timestamp))
                 IN  IF run'[r].pc = "done"
                     THEN run'[r].response =
                              AnalysisResult(analysisResults, distribution)
                     ELSE /\ run'[r].analysisResults = analysisResults
                          /\ run'[r].distribution = distribution]_vars

\* a successful request on two comments: comment 1 was found in the store
\* with another sentiment than the one resolved for it in this request and
\* is still stored with it, comment 2 was saved
C20_Witness ==
    \E r \in Runs :
        /\ Done(r) /\ Succeeded(r)
        /\ run[r].comments = <<1, 2>>
        /\ hist[r].cached = {1}
        /\ Len(store) = 2
        /\ hist[r].outcome[1].sentiment # findOne(1).sentiment
        /\ run[r].response.sentimentAnalysis[findOne(1).sentiment] = Num(500)
        /\ run[r].response.sentimentAnalysis[hist[r].outcome[1].sentiment] # Num(500)

\* C21: when two requests overlap, both can miss the lookup of one comment
\* identifier and both save it, so that the store holds two records of the
\* identifier; neither request fails for it, and each answers with a
\* totalComments equal to the number of comments it fetched.
C21_RaceTolerated ==
    \A r \in Runs :
        (Done(r) /\ hist[r].returned)
            => /\ Succeeded(r)
               /\ run[r].response.totalComments = Num(Len(run[r].comments))

\* both requests fetched comments 1 and 2, neither found comment 1 in the
\* store, both saved it, and both answered with totalComments 2
C21_Witness ==
    /\ \A r \in Runs :
          /\ Done(r) /\ Succeeded(r)
          /\ run[r].comments = <<1, 2>>
          /\ 1 \notin hist[r].cached
          /\ run[r].response.totalComments = Num(2)
    /\ Cardinality(Matches(1)) = 2

Started(r) == run[r].pc \notin {"idle", "done"}

\* C22: every request that has started completes and sends exactly one
\* response, whatever the remote classifier does (answers, rate-limit errors
\* for ever, other errors), when every external call and every timer
\* resolves: a response is there exactly when the request is done, it is
\* set once, in the step that ends the request, and a started request
\* leads to a done one.
C22_RunsToCompletion ==
    /\ [](\A r \in Runs : Done(r) <=> run[r].response # NoResponse)
    /\ [][\A r \in Runs :
             run'[r].response # run[r].response
                => \/ ~Started(r)
                   \/ run[r].response = NoResponse /\ run'[r].pc = "done"]_vars
    /\ \A r \in Runs : Started(r) ~> Done(r)

\* a request on three comments that ended with status 200 after the
\* classifier failed on each of them up to the fallback, comment 1 found
\* in the store and the two others saved
C22_Witness ==
    \E r \in Runs :
        /\ PerComment /\ Done(r) /\ Succeeded(r)
        /\ Len(run[r].comments) = 3
        /\ \A c \in 1..3 : hist[r].outcome[c].how = "fallback"
        /\ hist[r].cached = {1}
        /\ Len(store) = 3

\* the response texts of up to n pieces
RECURSIVE TextsOf(_)
TextsOf(n) ==
    IF n = 0 THEN {<<>>}
    ELSE LET shorter == TextsOf(n - 1)
         IN  shorter \cup {t \o w : t \in shorter, w \in ResponseWords}

\* C23: each of the three sentiments can come from a successful remote
\* response: for each of agree, disagree and neutral there is a response
\* text that analyzeSentiment reads as that sentiment (among the texts the
\* empty probe can grow into).
C23_EachSentimentFromRemote ==
    probe.words = 0 =>
        \A s \in Sentiments :
            \E t \in TextsOf(MaxWords) : SentimentOfResponse(probe.text \o t) = s

\* what the code does instead: no response text is read as disagree, the
\* texts that hold DISAGREE included
RemoteNeverDisagrees ==
    /\ probe.sentiment # "disagree"
    /\ \A r \in Runs : \A c \in CommentIds :
          hist[r].outcome[c].how = "remote" => hist[r].outcome[c].sentiment # "disagree"

\* the request failed in its aggregation loop, at a lookup or at a save
FailedInLoop(r) == Done(r) /\ run[r].response.status = 500 /\ hist[r].returned

\* C24: when a lookup or a save fails at the k-th comment of the
\* aggregation loop, the request ends with the error response in that
\* step and the store is left as it is: the comments before the k-th keep
\* their records (no rollback).  A later request on the same page then
\* finds exactly the records the failed request left (they come first in
\* the store, with the sentiments the failed request resolved) and saves
\* the remaining comments as new ones.
C24_NoRollback ==
    /\ [][\A r \in Runs :
             (/\ run[r].pc \in {"lookup", "save"}
              /\ run'[r].pc = "done"
              /\ run'[r].response.status # 200)
                => /\ run'[r].response = ErrorResponse(500)
                   /\ store' = store
                   /\ \A j \in 1..(run[r].i - 1) :
                         Matches(run[r].comments[j]) # {}]_vars
    /\ []((/\ FailedInLoop("r1")
           /\ Succeeded("r2")
           /\ run["r2"].comments = run["r1"].comments)
             => LET comments == run["r2"].comments
                    left == Cardinality(hist["r2"].cached)
                IN  /\ left < Len(comments)
                    /\ hist["r2"].cached = {comments[j] : j \in 1..left}
                    /\ Len(store) = Len(comments)
                    /\ \A j \in 1..Len(comments) :
                          store[j].commentId = comments[j]
                    /\ \A j \in 1..left :
                          store[j].sentiment
                              = hist["r1"].outcome[comments[j]].sentiment)

\* the first request on comments 1 and 2 saved comment 1 and failed at
\* the save of comment 2; the later request on the same page found
\* comment 1, resolved another sentiment for it, and saved comment 2
C24_Witness ==
    /\ FailedInLoop("r1") /\ hist["r1"].saveFailed
    /\ Succeeded("r2")
    /\ run["r1"].comments = <<1, 2>>
    /\ run["r2"].comments = <<1, 2>>
    /\ hist["r2"].cached = {1}
    /\ Len(store) = 2
    /\ hist["r2"].outcome[1].sentiment # store[1].sentiment

====
